---- MODULE Spec2Model ----
(***************************************************************************)
(* State-machine model of the PDF translation backend:                     *)
(*   backend/api/routes.py            the HTTP handlers and session store   *)
(*   backend/core/pdf_processor_simple.py  validator and translation gateway*)
(* Every handler is an `async def` without an await, so a handler runs to   *)
(* completion on the event loop before the next request is taken, and its  *)
(* response is sent before the next handler starts.  The translation        *)
(* gateway is synchronous code called from such a handler; its provider     *)
(* calls are separate steps of the model, during which no other handler can *)
(* run.                                                                     *)
(***************************************************************************)
EXTENDS Integers, Sequences, FiniteSets, TLC

VARIABLES
    uploaded_files,   \* the session store of routes.py
    fs,               \* the files of settings.TEMP_DIR
    resp,             \* the request handled and the response being sent for it
    tr,               \* position of the translate call that holds the event loop
    issued,           \* history: ids under which a session was created
    updated,          \* history: stored sessions with a successful update
    translated_ok,    \* history: stored sessions with a successful translate
    cleaned,          \* history: ids whose session a cleanup removed
    just_created,     \* history: id created by the latest request, else UnknownId
    after_upload      \* history: id created by the request before the latest one

vars == <<uploaded_files, fs, resp, tr, issued, updated, translated_ok,
          cleaned, just_created, after_upload>>

----------------------------------------------------------------------------
(* Bounds *)

MaxSessions == 2

(* Session identifiers uuid4 can return; 0 is an id no upload ever returns *)
SessionIds == 1..MaxSessions
UnknownId == 0
RequestIds == SessionIds \cup {UnknownId}

----------------------------------------------------------------------------
(* Inputs *)

PdfMagic == <<37, 80, 68, 70>>          \* b'%PDF'
PdfSuffix == <<".", "p", "d", "f">>     \* '.pdf'

GoodPdf == <<37, 80, 68, 70, 45>>
EditedPdf == <<37, 80, 68, 70, 46>>
BadPdf == <<80, 68, 70, 37, 45>>
ShortPdf == <<37, 80, 68>>

UploadContents == {GoodPdf, BadPdf, ShortPdf}
UpdateContents == {EditedPdf}

Filenames == { <<"a", ".", "p", "d", "f">>,
               <<"a", ".", "t", "x", "t">>,
               <<"p", "d", "f">> }

PdfTypes == {"original", "translated", "edited"}

NoVal == <<>>
NoPath == <<>>

----------------------------------------------------------------------------
(* Temp storage: a function from the paths of existing files to contents *)

(* Every session uses the same file names *)
Path_shared(session_id, kind) == <<1, kind>>

(* os.path.join(TEMP_DIR, f"{session_id}_{kind}.pdf") *)
Path(session_id, kind) == <<session_id, kind>>

Exists(f, path) == path \in DOMAIN f

WriteFile(f, path, content) ==
    [p \in DOMAIN f \cup {path} |-> IF p = path THEN content ELSE f[p]]

(* os.remove left out *)
RemoveFile_skipped(f, path) == f

RemoveFile(f, path) == [p \in DOMAIN f \ {path} |-> f[p]]

(* What a write leaves on disk when the copy raises: the file was opened    *)
(* with "wb" (created or truncated) and the first chunk was not written.    *)
PartialWrite(content) == SubSeq(content, 1, 0)

FilesOf(f, session_id) == {p \in DOMAIN f : p[1] = session_id}

----------------------------------------------------------------------------
(* Pure helpers *)

(* endswith('pdf'): the dot of the suffix is not required *)
EndsWith_no_dot(s, suffix) ==
    /\ Len(s) >= Len(suffix) - 1
    /\ SubSeq(s, Len(s) - Len(suffix) + 2, Len(s)) = Tail(suffix)

EndsWith(s, suffix) ==
    /\ Len(s) >= Len(suffix)
    /\ SubSeq(s, Len(s) - Len(suffix) + 1, Len(s)) = suffix

Min(a, b) == IF a < b THEN a ELSE b

(* Only the first byte of the header is compared *)
validate_pdf_first_byte(f, path, readable) ==
    IF ~readable \/ ~Exists(f, path)
    THEN FALSE
    ELSE SubSeq(f[path], 1, Min(1, Len(f[path]))) = SubSeq(PdfMagic, 1, 1)

(* PDFProcessor.validate_pdf: read 4 bytes, compare with %PDF; any          *)
(* exception while opening or reading gives False.                          *)
validate_pdf(f, path, readable) ==
    IF ~readable \/ ~Exists(f, path)
    THEN FALSE
    ELSE SubSeq(f[path], 1, Min(4, Len(f[path]))) = PdfMagic

(* The methods the processor object of routes.py has *)
PDFProcessorMethods == {"validate_pdf", "translate_document_deepl"}

(* dict.get(key) with None as NoPath *)
Get(rec, key) == IF key \in DOMAIN rec THEN rec[key] ELSE NoPath

(* The record is rebuilt from the upload's fields and the new key *)
SetKey_rebuilt(rec, key, value) ==
    [k \in {"original_path", "filename", key} |-> IF k = key THEN value ELSE rec[k]]

(* rec[key] = value on a dict *)
SetKey(rec, key, value) ==
    [k \in DOMAIN rec \cup {key} |-> IF k = key THEN value ELSE rec[k]]

(* uploaded_files[session_id] = rec  /  uploaded_files[session_id][key] = v *)
StorePut(store, session_id, rec) ==
    [s \in DOMAIN store \cup {session_id} |->
        IF s = session_id THEN rec ELSE store[s]]

(* uploaded_files.clear() *)
StoreDel_all(store, session_id) == [s \in {} |-> store[s]]

(* the record is not deleted *)
StoreDel_kept(store, session_id) == store

StoreDel(store, session_id) ==
    [s \in DOMAIN store \ {session_id} |-> store[s]]

(* A request (operation, session id, further arguments) with its answer *)
Response(op, session_id, arg, status, val) ==
    [op |-> op, sid |-> session_id, arg |-> arg, status |-> status, val |-> val]

NoResp == Response("none", UnknownId, NoVal, 0, NoVal)

(* The result dict of the gateway; NoResult while it has not returned *)
NoResult == [success |-> FALSE, error |-> ""]

Idle == [pc |-> "idle", sid |-> UnknownId, input |-> NoPath, output |-> NoPath,
         calls |-> <<>>, result |-> NoResult]

----------------------------------------------------------------------------
Init ==
    /\ uploaded_files = <<>>
    /\ fs = <<>>
    /\ resp = NoResp
    /\ tr = Idle
    /\ issued = {}
    /\ updated = {}
    /\ translated_ok = {}
    /\ cleaned = {}
    /\ just_created = UnknownId
    /\ after_upload = UnknownId

(* The event loop is free to start a handler: no handler is running and the *)
(* previous response has been sent.                                         *)
Free == tr.pc = "idle" /\ resp = NoResp

(* A handler starts: what the previous request created becomes history *)
Begin(created) ==
    /\ Free
    /\ after_upload' = just_created
    /\ just_created' = created

(* An identifier that is not in the store now *)
uuid4_reused ==
    CHOOSE s \in SessionIds \ DOMAIN uploaded_files :
        \A t \in SessionIds \ DOMAIN uploaded_files : s <= t

(* uuid.uuid4(): an identifier that no session was created under *)
uuid4 == CHOOSE s \in SessionIds \ issued : \A t \in SessionIds \ issued : s <= t

----------------------------------------------------------------------------
(* POST /upload-pdf *)

UploadIO == {"ok", "open_fails", "copy_fails", "read_fails"}

(* The uploads tried: every file under every name, and every I/O failure    *)
(* on a well-formed upload.                                                 *)
UploadInputs ==
    {<<filename, content, io>> \in Filenames \X UploadContents \X UploadIO :
        io = "ok" \/ (EndsWith(filename, PdfSuffix) /\ content = GoodPdf)}

(* The except clause removes nothing *)
remove_partial_none(f, path) == f

(* except Exception: if os.path.exists(file_path): os.remove(file_path) *)
remove_partial(f, path) == IF Exists(f, path) THEN RemoveFile(f, path) ELSE f

upload_pdf(filename, content, io) ==
    /\ Free
    /\ IF ~EndsWith(filename, PdfSuffix)
       THEN /\ resp' = Response("upload", UnknownId, <<filename, content, io>>, 400, "Only PDF files are allowed")
            /\ UNCHANGED <<uploaded_files, fs, issued>>
       ELSE /\ SessionIds \ issued # {}
            /\ LET session_id == uuid4
                    file_path == Path(session_id, "original")
                    saved == WriteFile(fs, file_path, content)
               IN  CASE io = "open_fails" ->
                          /\ fs' = remove_partial(fs, file_path)
                          /\ resp' = Response("upload", UnknownId, <<filename, content, io>>, 500, "Upload failed")
                          /\ UNCHANGED <<uploaded_files, issued>>
                     [] io = "copy_fails" ->
                          /\ fs' = remove_partial(WriteFile(fs, file_path, PartialWrite(content)),
                                                  file_path)
                          /\ resp' = Response("upload", UnknownId, <<filename, content, io>>, 500, "Upload failed")
                          /\ UNCHANGED <<uploaded_files, issued>>
                     [] OTHER ->
                          IF ~validate_pdf(saved, file_path, io # "read_fails")
                          THEN /\ fs' = RemoveFile(saved, file_path)
                               /\ resp' = Response("upload", UnknownId, <<filename, content, io>>, 400,
                                                   "Invalid or corrupted PDF file")
                               /\ UNCHANGED <<uploaded_files, issued>>
                          ELSE /\ fs' = saved
                               /\ uploaded_files' = StorePut(uploaded_files, session_id,
                                      [original_path |-> file_path, filename |-> filename])
                               /\ issued' = issued \cup {session_id}
                               /\ resp' = Response("upload", session_id, <<filename, content, io>>, 200, filename)
    /\ after_upload' = just_created
    /\ just_created' = IF resp'.status = 200 THEN resp'.sid ELSE UnknownId
    /\ UNCHANGED <<tr, updated, translated_ok, cleaned>>

----------------------------------------------------------------------------
(* GET /extract-text/{session_id}                                           *)
(* The processor imported by routes.py is the one of pdf_processor_simple,  *)
(* which has no extract_text_with_positions: the call raises AttributeError *)
(* inside the try block and is answered with 500.                           *)

(* Segments of a file, in extraction order: one per byte after the header,  *)
(* as the external text extractor is a black box.                           *)
extract_text_with_positions(content) ==
    [i \in 1..(Len(content) - Min(4, Len(content))) |->
        [text |-> content[i + 4], page |-> 1, segment_id |-> <<1, i - 1>>]]

extract_text(session_id) ==
    /\ Begin(UnknownId)
    /\ IF session_id \notin DOMAIN uploaded_files
       THEN resp' = Response("extract", session_id, NoVal, 404, "Session not found")
       ELSE LET pdf_path == uploaded_files[session_id]["original_path"]
            IN  IF "extract_text_with_positions" \in PDFProcessorMethods
                THEN LET text_segments == extract_text_with_positions(fs[pdf_path])
                     IN  resp' = Response("extract", session_id, NoVal, 200,
                                     [segments |-> text_segments,
                                      total_segments |-> Len(text_segments)])
                ELSE resp' = Response("extract", session_id, NoVal, 500,
                                      "Text extraction failed")
    /\ UNCHANGED <<uploaded_files, fs, tr, issued, updated, translated_ok, cleaned>>

----------------------------------------------------------------------------
(* POST /update-pdf/{session_id} *)

UpdateIO == {"ok", "open_fails", "copy_fails"}

update_pdf(session_id, content, io) ==
    /\ Begin(UnknownId)
    /\ IF session_id \notin DOMAIN uploaded_files
       THEN /\ resp' = Response("update", session_id, NoVal, 404, "Session not found")
            /\ UNCHANGED <<uploaded_files, fs, updated>>
       ELSE LET edited_path == Path(session_id, "edited")
            IN  CASE io = "open_fails" ->
                       /\ resp' = Response("update", session_id, NoVal, 500, "Failed to update PDF")
                       /\ UNCHANGED <<uploaded_files, fs, updated>>
                  [] io = "copy_fails" ->
                       /\ fs' = WriteFile(fs, edited_path, PartialWrite(content))
                       /\ resp' = Response("update", session_id, NoVal, 500, "Failed to update PDF")
                       /\ UNCHANGED <<uploaded_files, updated>>
                  [] OTHER ->
                       /\ fs' = WriteFile(fs, edited_path, content)
                       /\ uploaded_files' = StorePut(uploaded_files, session_id,
                             SetKey(uploaded_files[session_id], "edited_path", edited_path))
                       /\ updated' = updated \cup {session_id}
                       /\ resp' = Response("update", session_id, NoVal, 200, "PDF updated successfully")
    /\ UNCHANGED <<tr, issued, translated_ok, cleaned>>

----------------------------------------------------------------------------
(* POST /translate/{session_id}                                             *)
(* translate_pdf calls PDFProcessor.translate_document_deepl, which opens   *)
(* the input, uploads it to the provider, polls the status until done or an *)
(* error message, then downloads into the output path.  Every exception in  *)
(* the gateway becomes a result with success = False, which translate_pdf   *)
(* answers with 500 once the gateway has returned.                          *)

(* the edited file is ignored *)
translate_input_original(rec) == rec["original_path"]

translate_input(rec) ==
    IF Get(rec, "edited_path") # NoPath
    THEN Get(rec, "edited_path")
    ELSE rec["original_path"]

(* The handler up to the call of the gateway *)
translate_pdf(session_id) ==
    /\ Begin(UnknownId)
    /\ IF session_id \notin DOMAIN uploaded_files
       THEN /\ resp' = Response("translate", session_id, NoVal, 404, "Session not found")
            /\ UNCHANGED tr
       ELSE /\ tr' = [pc |-> "upload", sid |-> session_id,
                      input |-> translate_input(uploaded_files[session_id]),
                      output |-> Path(session_id, "translated"),
                      calls |-> <<>>, result |-> NoResult]
            /\ UNCHANGED resp
    /\ UNCHANGED <<uploaded_files, fs, issued, updated, translated_ok, cleaned>>

(* History of the steps of the running gateway call (file opens and        *)
(* provider calls) with their outcomes.  Repeated pending polls are kept as *)
(* one entry.                                                               *)
Call(name, outcome) == [call |-> name, outcome |-> outcome]

Logged(calls, name, outcome) ==
    IF calls # <<>> /\ calls[Len(calls)] = Call(name, outcome) /\ outcome = "pending"
    THEN calls
    ELSE Append(calls, Call(name, outcome))

(* A failure is handed back as a successful result *)
GatewayFails_success(calls, detail) ==
    tr' = [tr EXCEPT !.pc = "return", !.calls = calls,
                     !.result = [success |-> TRUE, error |-> detail]]

(* except Exception as e: return {"success": False, "error": str(e), ...} *)
GatewayFails(calls, detail) ==
    tr' = [tr EXCEPT !.pc = "return", !.calls = calls,
                     !.result = [success |-> FALSE, error |-> detail]]

(* Step 1: open the input and upload it to the provider *)
UploadOutcomes == {"uploaded", "open_fails", "upload_raises"}

translate_upload(outcome) ==
    /\ tr.pc = "upload"
    /\ CASE outcome = "open_fails" \/ ~Exists(fs, tr.input) ->
              GatewayFails(Logged(tr.calls, "open_input", "raises"),
                           "cannot open input")
         [] outcome = "upload_raises" /\ Exists(fs, tr.input) ->
              GatewayFails(Logged(Logged(tr.calls, "open_input", "ok"),
                                  "upload", "raises"),
                           "upload failed")
         [] OTHER ->
              tr' = [tr EXCEPT !.pc = "poll",
                               !.calls = Logged(Logged(tr.calls, "open_input", "ok"),
                                                "upload", "ok")]
    /\ UNCHANGED <<uploaded_files, fs, resp, issued, updated, translated_ok, cleaned,
                   just_created, after_upload>>

(* What translate_document_get_status gives: it raises, or it returns a     *)
(* status with the attributes done and error_message.                       *)
StatusOutcomes == {[done |-> d, error_message |-> e, raises |-> r] :
                      d \in BOOLEAN, e \in BOOLEAN, r \in BOOLEAN}

(* What the provider reported, as the history records it *)
Reported(status) ==
    CASE status.raises -> "raises"
      [] ~status.raises /\ status.done -> "done"
      [] ~status.raises /\ ~status.done /\ status.error_message -> "error"
      [] OTHER -> "pending"

(* An error message does not end the loop *)
poll_decision_ignores_error(status) ==
    CASE status.raises -> "raise"
      [] ~status.raises /\ status.done -> "break"
      [] OTHER -> "sleep"

(* The body of `while True`: status.done is tested first, then              *)
(* status.error_message; otherwise the loop sleeps and polls again.         *)
poll_decision(status) ==
    CASE status.raises -> "raise"
      [] ~status.raises /\ status.done -> "break"
      [] ~status.raises /\ ~status.done /\ status.error_message -> "raise"
      [] OTHER -> "sleep"

(* The loop gives up at the second pending status in a row *)
translate_poll_limited(status) ==
    /\ tr.pc = "poll"
    /\ LET calls == Logged(tr.calls, "status", Reported(status))
       IN  CASE poll_decision(status) = "raise" ->
                  GatewayFails(calls, IF status.raises THEN "status failed"
                                                       ELSE "Translation failed")
             [] poll_decision(status) = "break" ->
                  tr' = [tr EXCEPT !.pc = "download", !.calls = calls]
             [] OTHER ->
                  IF calls = tr.calls
                  THEN GatewayFails(calls, "timed out")
                  ELSE tr' = [tr EXCEPT !.calls = calls]
    /\ UNCHANGED <<uploaded_files, fs, resp, issued, updated, translated_ok, cleaned,
                   just_created, after_upload>>

(* Step 2: one iteration of the poll loop *)
translate_poll(status) ==
    /\ tr.pc = "poll"
    /\ LET calls == Logged(tr.calls, "status", Reported(status))
       IN  CASE poll_decision(status) = "raise" ->
                  GatewayFails(calls, IF status.raises THEN "status failed"
                                                       ELSE "Translation failed")
             [] poll_decision(status) = "break" ->
                  tr' = [tr EXCEPT !.pc = "download", !.calls = calls]
             [] OTHER ->
                  \* time.sleep(2), then the next iteration
                  tr' = [tr EXCEPT !.calls = calls]
    /\ UNCHANGED <<uploaded_files, fs, resp, issued, updated, translated_ok, cleaned,
                   just_created, after_upload>>

(* The provider's translation of a document *)
Translated(content) == <<84>> \o content

(* Step 3: open the output and download into it *)
DownloadOutcomes == {"ok", "open_fails", "download_raises"}

translate_download(outcome) ==
    /\ tr.pc = "download"
    /\ CASE outcome = "open_fails" ->
              /\ GatewayFails(Logged(tr.calls, "open_output", "raises"),
                              "cannot open output")
              /\ UNCHANGED fs
         [] outcome = "download_raises" ->
              /\ fs' = WriteFile(fs, tr.output, PartialWrite(Translated(fs[tr.input])))
              /\ GatewayFails(Logged(Logged(tr.calls, "open_output", "ok"),
                                     "download", "raises"),
                              "download failed")
         [] OTHER ->
              /\ fs' = WriteFile(fs, tr.output, Translated(fs[tr.input]))
              /\ tr' = [tr EXCEPT !.pc = "return",
                                  !.calls = Logged(Logged(tr.calls, "open_output", "ok"),
                                                   "download", "ok"),
                                  !.result = [success |-> TRUE, error |-> ""]]
    /\ UNCHANGED <<uploaded_files, resp, issued, updated, translated_ok, cleaned,
                   just_created, after_upload>>

(* translated_path is recorded whatever the gateway returned *)
record_result_always(store, session_id, output_pdf, success) ==
    [s \in DOMAIN store |->
        IF s = session_id
        THEN [k \in DOMAIN store[s] \cup {"translated_path"} |->
                 IF k = "translated_path" THEN output_pdf ELSE store[s][k]]
        ELSE store[s]]

(* if result["success"]: uploaded_files[session_id]["translated_path"] = output_pdf *)
record_result(store, session_id, output_pdf, success) ==
    IF success
    THEN StorePut(store, session_id,
                  SetKey(store[session_id], "translated_path", output_pdf))
    ELSE store

(* The detail is a fixed text *)
error_detail_fixed(result) == "Translation failed"

(* HTTPException(status_code=500, detail=result["error"]) *)
error_detail(result) == result.error

(* The handler after the gateway has returned its result *)
translate_return ==
    /\ tr.pc = "return"
    /\ tr' = Idle
    /\ IF tr.result.success /\ tr.sid \notin DOMAIN uploaded_files
       THEN \* uploaded_files[session_id] raises KeyError: except Exception
            /\ resp' = Response("translate", tr.sid, NoVal, 500, "Translation failed")
            /\ UNCHANGED <<uploaded_files, translated_ok>>
       ELSE /\ uploaded_files' = record_result(uploaded_files, tr.sid, tr.output,
                                               tr.result.success)
            /\ IF tr.result.success
               THEN /\ translated_ok' = translated_ok \cup {tr.sid}
                    /\ resp' = Response("translate", tr.sid, NoVal, 200,
                                        Path(tr.sid, "translated"))
               ELSE /\ resp' = Response("translate", tr.sid, NoVal, 500,
                                        error_detail(tr.result))
                    /\ UNCHANGED translated_ok
    /\ UNCHANGED <<fs, issued, updated, cleaned, just_created, after_upload>>

----------------------------------------------------------------------------
(* GET /download/{session_id}/{pdf_type} *)

(* os.path.splitext(filename)[0]: the name up to its last dot, leading dots *)
(* not counting as an extension separator.                                  *)
RECURSIVE LeadingDots(_)
LeadingDots(s) ==
    IF s # <<>> /\ Head(s) = "." THEN 1 + LeadingDots(Tail(s)) ELSE 0

LastDot(s) ==
    LET dots == {i \in 1..Len(s) : s[i] = "." /\ i > LeadingDots(s)}
    IN  IF dots = {} THEN 0 ELSE CHOOSE i \in dots : \A j \in dots : j <= i

SplitextRoot(s) == IF LastDot(s) = 0 THEN s ELSE SubSeq(s, 1, LastDot(s) - 1)

(* the final else branch is missing *)
known_type_unchecked(pdf_type) == TRUE

(* The variants the if/elif chain of download_pdf knows *)
known_type(pdf_type) == pdf_type \in {"original", "translated"}

(* the translated file is looked up by its name, not in the record *)
download_path_by_name(rec, pdf_type) ==
    IF pdf_type = "original"
    THEN rec["original_path"]
    ELSE <<rec["original_path"][1], "translated">>

(* "original" gives the file that is the current input of translation *)
download_path_active(rec, pdf_type) ==
    IF pdf_type = "original"
    THEN IF "edited_path" \in DOMAIN rec THEN rec["edited_path"] ELSE rec["original_path"]
    ELSE Get(rec, "translated_path")

(* The path field looked up for a known variant *)
download_path(rec, pdf_type) ==
    IF pdf_type = "original"
    THEN Get(rec, "original_path")
    ELSE Get(rec, "translated_path")

download_pdf(session_id, pdf_type) ==
    /\ Begin(UnknownId)
    /\ IF session_id \notin DOMAIN uploaded_files
       THEN resp' = Response("download", session_id, pdf_type, 404, "Session not found")
       ELSE LET rec == uploaded_files[session_id]
                file_path == download_path(rec, pdf_type)
            IN  IF ~known_type(pdf_type)
                THEN resp' = Response("download", session_id, pdf_type, 400, "Invalid PDF type")
                ELSE IF pdf_type = "translated" /\ file_path = NoPath
                THEN resp' = Response("download", session_id, pdf_type, 404,
                                      "Translated PDF not found")
                ELSE IF file_path = NoPath \/ ~Exists(fs, file_path)
                THEN resp' = Response("download", session_id, pdf_type, 404, "PDF file not found")
                ELSE resp' = Response("download", session_id, pdf_type, 200,
                        [path |-> file_path, content |-> fs[file_path],
                         filename |-> <<SplitextRoot(rec["filename"]), "_",
                                        pdf_type, ".pdf">>])
    /\ UNCHANGED <<uploaded_files, fs, tr, issued, updated, translated_ok, cleaned>>

----------------------------------------------------------------------------
(* DELETE /cleanup/{session_id} *)

(* the original is left out of the loop *)
CleanupKeys_translated_only == <<"translated_path">>

CleanupKeys == <<"original_path", "translated_path">>

(* The files the loop of cleanup_session removes *)
CleanupRemoved(rec, f) ==
    {rec[CleanupKeys[i]] : i \in {j \in 1..Len(CleanupKeys) :
        CleanupKeys[j] \in DOMAIN rec /\ Exists(f, rec[CleanupKeys[j]])}}

cleanup_session(session_id) ==
    /\ Begin(UnknownId)
    /\ IF session_id \notin DOMAIN uploaded_files
       THEN /\ resp' = Response("cleanup", session_id, NoVal, 404, "Session not found")
            /\ UNCHANGED <<uploaded_files, fs, updated, translated_ok, cleaned>>
       ELSE LET removed == CleanupRemoved(uploaded_files[session_id], fs)
                files_removed == Cardinality(removed)
            IN  /\ fs' = [p \in DOMAIN fs \ removed |-> fs[p]]
                /\ uploaded_files' = StoreDel(uploaded_files, session_id)
                /\ updated' = updated \ {session_id}
                /\ translated_ok' = translated_ok \ {session_id}
                /\ cleaned' = cleaned \cup {session_id}
                /\ resp' = Response("cleanup", session_id, NoVal, 200, files_removed)
    /\ UNCHANGED <<tr, issued>>

----------------------------------------------------------------------------
(* GET /sessions *)

(* has_translation looks at the wrong key *)
SessionList_edited(store) ==
    [active_sessions |-> Cardinality(DOMAIN store),
     sessions |-> {[session_id |-> s, filename |-> store[s]["filename"],
                    has_translation |-> "edited_path" \in DOMAIN store[s]] :
                   s \in DOMAIN store}]

(* {"active_sessions": len(uploaded_files), "sessions": [...]} *)
SessionList(store) ==
    [active_sessions |-> Cardinality(DOMAIN store),
     sessions |-> {[session_id |-> s, filename |-> store[s]["filename"],
                    has_translation |-> "translated_path" \in DOMAIN store[s]] :
                   s \in DOMAIN store}]

list_sessions ==
    /\ Begin(UnknownId)
    /\ resp' = Response("sessions", UnknownId, NoVal, 200, SessionList(uploaded_files))
    /\ UNCHANGED <<uploaded_files, fs, tr, issued, updated, translated_ok, cleaned>>

----------------------------------------------------------------------------
(* The server sends the response of the handler that returned; the event    *)
(* loop then takes the next request.                                        *)
respond ==
    /\ resp # NoResp
    /\ resp' = NoResp
    /\ UNCHANGED <<uploaded_files, fs, tr, issued, updated, translated_ok, cleaned,
                   just_created, after_upload>>

----------------------------------------------------------------------------
Next ==
    \/ \E in \in UploadInputs : upload_pdf(in[1], in[2], in[3])
    \/ \E session_id \in RequestIds : extract_text(session_id)
    \/ \E session_id \in RequestIds, content \in UpdateContents, io \in UpdateIO :
          update_pdf(session_id, content, io)
    \/ \E session_id \in RequestIds : translate_pdf(session_id)
    \/ \E outcome \in UploadOutcomes : translate_upload(outcome)
    \/ \E status \in StatusOutcomes : translate_poll(status)
    \/ \E outcome \in DownloadOutcomes : translate_download(outcome)
    \/ translate_return
    \/ \E session_id \in RequestIds, pdf_type \in PdfTypes :
          download_pdf(session_id, pdf_type)
    \/ \E session_id \in RequestIds : cleanup_session(session_id)
    \/ list_sessions
    \/ respond

Spec == Init /\ [][Next]_vars

----------------------------------------------------------------------------
(* One uploaded session and the requests that translate it.  The gateway    *)
(* runs synchronously inside the handler, so once entered each of its steps *)
(* is taken; what the provider answers to a poll is not up to the program.  *)
GatewayInit ==
    /\ uploaded_files = [s \in {1} |->
                            [original_path |-> Path(1, "original"),
                             filename |-> <<"a", ".", "p", "d", "f">>]]
    /\ fs = [p \in {Path(1, "original")} |-> GoodPdf]
    /\ resp = NoResp
    /\ tr = Idle
    /\ issued = {1}
    /\ updated = {}
    /\ translated_ok = {}
    /\ cleaned = {}
    /\ just_created = 1
    /\ after_upload = UnknownId

GatewayNext ==
    \/ \E content \in UpdateContents, io \in UpdateIO : update_pdf(1, content, io)
    \/ translate_pdf(1)
    \/ \E outcome \in UploadOutcomes : translate_upload(outcome)
    \/ \E status \in StatusOutcomes : translate_poll(status)
    \/ \E outcome \in DownloadOutcomes : translate_download(outcome)
    \/ translate_return
    \/ respond

GatewaySpec ==
    /\ GatewayInit
    /\ [][GatewayNext]_vars
    /\ WF_vars(\E outcome \in UploadOutcomes : translate_upload(outcome))
    /\ WF_vars(\E outcome \in DownloadOutcomes : translate_download(outcome))
    /\ WF_vars(translate_return)

----------------------------------------------------------------------------
(* The validator alone, applied to every short file *)
MaxLen == 5

Bytes == {37, 80, 68, 70, 65}

ByteSeqs == UNION {[1..n -> Bytes] : n \in 0..MaxLen}

ValidatedPath == Path(1, "original")

ValidatorInit ==
    /\ fs \in {<<>>} \cup {[p \in {ValidatedPath} |-> content] : content \in ByteSeqs}
    /\ uploaded_files = <<>>
    /\ resp = NoResp
    /\ tr = Idle
    /\ issued = {}
    /\ updated = {}
    /\ translated_ok = {}
    /\ cleaned = {}
    /\ just_created = UnknownId
    /\ after_upload = UnknownId

(* One call of validate_pdf; `readable` is whether open and read succeed *)
validate_call(readable) ==
    /\ resp = NoResp
    /\ resp' = Response("validate_pdf", UnknownId, readable, 200,
                        validate_pdf(fs, ValidatedPath, readable))
    /\ UNCHANGED <<uploaded_files, fs, tr, issued, updated, translated_ok, cleaned,
                   just_created, after_upload>>

ValidatorNext == \E readable \in BOOLEAN : validate_call(readable)

ValidatorSpec == ValidatorInit /\ [][ValidatorNext]_vars

----------------------------------------------------------------------------
(* Properties *)

(* The step is the handler of `op` returning *)
Handled(op) == resp = NoResp /\ resp' # NoResp /\ resp'.op = op

(* The first four bytes are %PDF *)
HasPdfHeader(content) ==
    /\ Len(content) >= 4
    /\ content[1] = 37 /\ content[2] = 80 /\ content[3] = 68 /\ content[4] = 70

(* The last four characters are .pdf *)
HasPdfName(filename) ==
    /\ Len(filename) >= 4
    /\ filename[Len(filename) - 3] = "."
    /\ filename[Len(filename) - 2] = "p"
    /\ filename[Len(filename) - 1] = "d"
    /\ filename[Len(filename)] = "f"

(* The files the record of a session references *)
Referenced(rec) == {rec[k] : k \in DOMAIN rec \ {"filename"}}

(* C1: a successful cleanup deletes every file the session record           *)
(* references (original, edited and translated), removes the record, and    *)
(* reports as many files as it had.                                         *)
C1_CleanupDeletesEveryFile ==
    [][(Handled("cleanup") /\ resp'.status = 200) =>
          LET had == Referenced(uploaded_files[resp'.sid]) \cap DOMAIN fs
          IN  /\ had \cap DOMAIN fs' = {}
              /\ resp'.sid \notin DOMAIN uploaded_files'
              /\ resp'.val = Cardinality(had)]_vars

(* C2 as stated: a download with a type other than original or translated   *)
(* is answered with 400 whatever the session state, unknown ids included.   *)
C2_BadTypeAlways400 ==
    (resp.op = "download" /\ resp.arg \notin {"original", "translated"})
        => resp.status = 400

(* C2 amended: a download with a type other than original or translated is  *)
(* answered with 400 when the session is in the store, and with 404 when    *)
(* the id is unknown or its session was cleaned up.                         *)
C2_BadTypeStatus ==
    (resp.op = "download" /\ resp.arg \notin {"original", "translated"})
        => resp.status = IF resp.sid \in DOMAIN uploaded_files THEN 400 ELSE 404

C2_Witness ==
    /\ resp.op = "download"
    /\ resp.arg = "edited"
    /\ resp.status = 400
    /\ resp.sid \in translated_ok \cap updated

(* C3: extract-text on a stored session answers 200 with the segments of    *)
(* the file at original_path and total_segments their number; on an id not  *)
(* in the store it answers 404.                                             *)
C3_ExtractSucceeds ==
    resp.op = "extract" =>
        IF resp.sid \in DOMAIN uploaded_files
        THEN /\ resp.status = 200
             /\ resp.val.segments = extract_text_with_positions(
                    fs[uploaded_files[resp.sid]["original_path"]])
             /\ resp.val.total_segments = Len(resp.val.segments)
        ELSE resp.status = 404

(* C4: the gateway is handed the session's original file when no update of  *)
(* the session has succeeded, and its edited file when one has.             *)
C4_TranslateInput ==
    tr.pc # "idle" =>
        /\ tr.sid \in DOMAIN uploaded_files
        /\ tr.input = IF tr.sid \in updated
                      THEN Path(tr.sid, "edited")
                      ELSE Path(tr.sid, "original")
        /\ tr.input = IF tr.sid \in updated
                      THEN uploaded_files[tr.sid]["edited_path"]
                      ELSE uploaded_files[tr.sid]["original_path"]

C4_Witness ==
    /\ tr.pc = "poll"
    /\ tr.sid \in updated
    /\ tr.input = Path(tr.sid, "edited")
    /\ fs[tr.input] = EditedPdf

(* C5: a stored session has translated_path exactly when a translate call   *)
(* for it has returned success, and the session list reports                *)
(* has_translation for exactly those sessions.                              *)
C5_TranslatedIffSucceeded ==
    /\ \A s \in DOMAIN uploaded_files :
          ("translated_path" \in DOMAIN uploaded_files[s]) <=> (s \in translated_ok)
    /\ resp.op = "sessions" =>
          \A e \in resp.val.sessions :
              e.has_translation <=> (e.session_id \in translated_ok)

C5_Witness ==
    /\ resp.op = "sessions"
    /\ \E e \in resp.val.sessions : e.has_translation
    /\ \E e \in resp.val.sessions :
          ~e.has_translation /\ Exists(fs, Path(e.session_id, "translated"))

(* C6: a cleanup of a stored session succeeds with a count of at least 1,   *)
(* and a cleanup of an id that a cleanup already removed answers 404 and    *)
(* changes neither the store nor the files.                                 *)
C6_CleanupTwice ==
    [][Handled("cleanup") =>
          /\ resp'.sid \in DOMAIN uploaded_files =>
                (resp'.status = 200 /\ resp'.val >= 1)
          /\ resp'.sid \in cleaned =>
                (resp'.status = 404 /\ UNCHANGED <<uploaded_files, fs>>)]_vars

C6_Witness ==
    /\ resp.op = "cleanup"
    /\ resp.status = 404
    /\ resp.sid \in cleaned

(* C7: a cleanup that directly follows the upload that created the session  *)
(* succeeds, leaves no file of the session, and the session is not listed.  *)
C7_UploadThenCleanup ==
    (resp.op = "cleanup" /\ resp.sid # UnknownId /\ after_upload = resp.sid) =>
        /\ resp.status = 200
        /\ FilesOf(fs, resp.sid) = {}
        /\ \A e \in SessionList(uploaded_files).sessions : e.session_id # resp.sid

C7_Witness ==
    /\ resp.op = "cleanup"
    /\ resp.sid # UnknownId
    /\ after_upload = resp.sid
    /\ resp.status = 200
    /\ resp.val = 1

(* C8: a download of the translated variant answers 404 for every session   *)
(* without a successful translate, also after failed translate attempts and *)
(* after updates.                                                           *)
C8_NoTranslationNoDownload ==
    (resp.op = "download" /\ resp.arg = "translated" /\ resp.sid \notin translated_ok)
        => resp.status = 404

C8_Witness ==
    /\ resp.op = "download"
    /\ resp.arg = "translated"
    /\ resp.status = 404
    /\ resp.sid \in updated
    /\ Exists(fs, Path(resp.sid, "translated"))

(* C9: an upload whose filename does not end in .pdf answers 400 and leaves *)
(* the session store and temp storage as they were.                         *)
C9_BadNameRejected ==
    [][(Handled("upload") /\ ~HasPdfName(resp'.arg[1])) =>
          /\ resp'.status = 400
          /\ UNCHANGED <<uploaded_files, fs>>]_vars

C9_Witness ==
    /\ resp.op = "upload"
    /\ resp.arg[1] = <<"p", "d", "f">>
    /\ resp.arg[2] = GoodPdf
    /\ resp.status = 400

(* C10: an upload whose saved file fails header validation answers 400,     *)
(* leaves no file behind and creates no session record.                     *)
C10_InvalidUploadRejected ==
    [][(/\ Handled("upload")
        /\ HasPdfName(resp'.arg[1])
        /\ resp'.arg[3] \in {"ok", "read_fails"}
        /\ (resp'.arg[3] = "read_fails" \/ ~HasPdfHeader(resp'.arg[2]))) =>
          /\ resp'.status = 400
          /\ UNCHANGED <<uploaded_files, fs>>
          /\ FilesOf(fs', uuid4) = {}]_vars

C10_Witness ==
    /\ resp.op = "upload"
    /\ HasPdfName(resp.arg[1])
    /\ resp.arg[2] = ShortPdf
    /\ resp.arg[3] = "ok"
    /\ resp.status = 400

(* C11: validate_pdf returns true exactly when the file can be read and its *)
(* first four bytes are %PDF; for every other input, shorter files and      *)
(* unreadable or missing files included, it returns false, and it always    *)
(* returns a boolean.                                                       *)
C11_ValidatorExact ==
    resp.op = "validate_pdf" =>
        /\ resp.val \in BOOLEAN
        /\ resp.val = (/\ resp.arg
                       /\ ValidatedPath \in DOMAIN fs
                       /\ HasPdfHeader(fs[ValidatedPath]))

C11_Witness ==
    /\ resp.op = "validate_pdf"
    /\ ValidatedPath \in DOMAIN fs
    /\ resp.arg
    /\ Len(fs[ValidatedPath]) = 3
    /\ fs[ValidatedPath] = SubSeq(PdfMagic, 1, 3)
    /\ resp.val = FALSE

(* The steps of a gateway call that are not pending polls *)
Steps(calls) == SelectSeq(calls, LAMBDA c : c.outcome # "pending")

(* The calls made to the translation provider *)
ProviderCalls(calls) ==
    SelectSeq(calls, LAMBDA c : c.call \in {"upload", "status", "download"})

Failures == {"raises", "error"}

CompleteRun ==
    <<Call("open_input", "ok"), Call("upload", "ok"), Call("status", "done"),
      Call("open_output", "ok"), Call("download", "ok")>>

(* C12: the gateway always hands back a result: it reports success exactly  *)
(* when the input was opened, the upload succeeded, a poll reported          *)
(* completion and the download succeeded; a failure of any step ends the    *)
(* call at once with success = false and an error message.                  *)
C12_GatewayResult ==
    tr.pc # "idle" =>
        /\ (tr.pc = "return" /\ tr.result.success) <=> (Steps(tr.calls) = CompleteRun)
        /\ \A i \in 1..Len(tr.calls) :
              tr.calls[i].outcome \in Failures =>
                  /\ i = Len(tr.calls)
                  /\ tr.pc = "return"
                  /\ ~tr.result.success
        /\ (tr.pc = "return" /\ ~tr.result.success) =>
              /\ tr.result.error # ""
              /\ tr.calls # <<>>
              /\ tr.calls[Len(tr.calls)].outcome \in Failures

C12_Witness ==
    /\ tr.pc = "return"
    /\ ~tr.result.success
    /\ tr.calls = <<Call("open_input", "ok"), Call("upload", "ok"),
                    Call("status", "pending"), Call("status", "error")>>

C13_TranslateOutcome ==
    [][/\ (tr.pc = "return" /\ tr'.pc = "idle") =>
            IF tr.result.success
            THEN /\ resp' = Response("translate", tr.sid, NoVal, 200,
                                     Path(tr.sid, "translated"))
                 /\ uploaded_files'[tr.sid].translated_path = Path(tr.sid, "translated")
                 /\ \A k \in DOMAIN uploaded_files[tr.sid] \ {"translated_path"} :
                       uploaded_files'[tr.sid][k] = uploaded_files[tr.sid][k]
                 /\ Exists(fs', Path(tr.sid, "translated"))
            ELSE /\ resp'.op = "translate" /\ resp'.sid = tr.sid
                 /\ resp'.status = 500
                 /\ resp'.val = tr.result.error
                 /\ uploaded_files' = uploaded_files
       /\ (Handled("download") /\ resp'.arg = "translated"
              /\ resp'.sid \in translated_ok) =>
            /\ resp'.status = 200
            /\ resp'.val.path = Path(resp'.sid, "translated")
      ]_vars

C13_Witness ==
    /\ resp.op = "translate"
    /\ resp.status = 500
    /\ resp.val = "download failed"
    /\ resp.sid \in DOMAIN uploaded_files
    /\ "translated_path" \notin DOMAIN uploaded_files[resp.sid]
    /\ Exists(fs, Path(resp.sid, "translated"))

(* The provider reports a status that is neither done nor an error *)
PendingStatus == [done |-> FALSE, error_message |-> FALSE, raises |-> FALSE]

(* A poll at which the provider reports completion or an error, or raises *)
FinalPoll ==
    \E status \in StatusOutcomes : Reported(status) # "pending" /\ translate_poll(status)

(* C15: the poll loop can always go round once more, a pending status keeps *)
(* the call in the loop, and the loop is left only at a poll that reported  *)
(* completion or an error message or that raised; so a call whose provider  *)
(* keeps answering pending never returns, and if the provider eventually    *)
(* gives a final answer to a polling call the call eventually returns.      *)
C15_PollLoop ==
    /\ [](tr.pc = "poll" => ENABLED translate_poll(PendingStatus))
    /\ [][tr.pc = "poll" =>
            LET last == tr'.calls[Len(tr'.calls)]
            IN  /\ last.call = "status"
                /\ (last.outcome = "pending") <=> (tr'.pc = "poll")
                /\ (last.outcome = "done") <=> (tr'.pc = "download")
                /\ (last.outcome \in Failures) <=> (tr'.pc = "return")
         ]_vars
    /\ WF_vars(FinalPoll) => (tr.pc # "idle" ~> tr.pc = "idle")

C15_Witness ==
    /\ tr.pc = "poll"
    /\ tr.calls[Len(tr.calls)] = Call("status", "pending")
    /\ ENABLED translate_poll(PendingStatus)

(* C16: while a translate call is polling, the requests that do not concern *)
(* its session can be handled: listing, a new upload, and download and      *)
(* cleanup of every other stored session.                                   *)
C16_OthersServedWhilePolling ==
    tr.pc = "poll" =>
        /\ ENABLED list_sessions
        /\ ENABLED (\E in \in UploadInputs : upload_pdf(in[1], in[2], in[3]))
        /\ \A session_id \in DOMAIN uploaded_files \ {tr.sid} :
              /\ ENABLED download_pdf(session_id, "original")
              /\ ENABLED cleanup_session(session_id)

(* The session a step works for: the one of the running translate call, or  *)
(* the one the handler that starts or returns in this step was called with  *)
StepSession ==
    IF tr.pc # "idle" THEN tr.sid
    ELSE IF tr'.pc # "idle" THEN tr'.sid
    ELSE resp'.sid

(* C17: a step taken for one session leaves every other session as it was:  *)
(* whether it is in the store, its record, the set of its files and their   *)
(* contents.                                                                *)
C17_NoInterference ==
    [][\A B \in SessionIds \ {StepSession} :
          /\ (B \in DOMAIN uploaded_files) <=> (B \in DOMAIN uploaded_files')
          /\ B \in DOMAIN uploaded_files => uploaded_files'[B] = uploaded_files[B]
          /\ FilesOf(fs', B) = FilesOf(fs, B)
          /\ \A p \in FilesOf(fs, B) : fs'[p] = fs[p]
      ]_vars

C17_Witness ==
    /\ resp.op = "cleanup"
    /\ resp.status = 200
    /\ \E B \in DOMAIN uploaded_files :
          /\ B # resp.sid
          /\ "edited_path" \in DOMAIN uploaded_files[B]
          /\ "translated_path" \in DOMAIN uploaded_files[B]
          /\ fs[Path(B, "translated")] = Translated(EditedPdf)

(* The step is a successful update of session s: it writes edited_path *)
WritesEditedPath(s) ==
    Handled("update") /\ resp'.sid = s /\ resp'.status = 200

(* C18 as stated: edited_path is written at most once in a session's life,  *)
(* that is, no successful update works on a session whose edited_path is    *)
(* already set.                                                             *)
C18_EditedPathWrittenOnce ==
    [][\A s \in DOMAIN uploaded_files :
          WritesEditedPath(s) => "edited_path" \notin DOMAIN uploaded_files[s]
      ]_vars

(* C18, amended: every successful update writes edited_path, also when it   *)
(* is already set, and always with the path of the session's edited file;   *)
(* only a successful update sets the field, and once set it keeps its value *)
(* until cleanup removes the session.                                       *)
C18_EditedPathStable ==
    [][\A s \in DOMAIN uploaded_files :
          /\ WritesEditedPath(s) =>
                /\ uploaded_files'[s].edited_path = Path(s, "edited")
                /\ fs'[Path(s, "edited")] \in UpdateContents
          /\ s \in DOMAIN uploaded_files' =>
                IF "edited_path" \in DOMAIN uploaded_files[s]
                THEN /\ "edited_path" \in DOMAIN uploaded_files'[s]
                     /\ uploaded_files'[s].edited_path = uploaded_files[s].edited_path
                ELSE "edited_path" \in DOMAIN uploaded_files'[s] => WritesEditedPath(s)
      ]_vars

(* An update has succeeded on a session whose translation was made from an  *)
(* earlier edited file                                                      *)
C18_Witness ==
    /\ resp.op = "update"
    /\ resp.status = 200
    /\ Path(resp.sid, "translated") \in DOMAIN fs
    /\ fs[Path(resp.sid, "translated")] = Translated(EditedPdf)
    /\ uploaded_files[resp.sid].edited_path = Path(resp.sid, "edited")

(* C19: a successful upload stores the uploaded bytes under original_path   *)
(* with the given filename; while the session is in the store no step       *)
(* changes original_path, filename or the content of that file, and only a  *)
(* successful cleanup of the session removes it; a download of "original"   *)
(* for a stored session answers 200 with the content of that file, also     *)
(* after an update.                                                         *)
C19_OriginalImmutable ==
    [][/\ (Handled("upload") /\ resp'.status = 200) =>
            /\ uploaded_files'[resp'.sid] =
                  [original_path |-> Path(resp'.sid, "original"),
                   filename |-> resp'.arg[1]]
            /\ fs'[Path(resp'.sid, "original")] = resp'.arg[2]
       /\ \A s \in DOMAIN uploaded_files :
            LET original == uploaded_files[s].original_path
            IN  /\ original \in DOMAIN fs
                /\ IF s \in DOMAIN uploaded_files'
                   THEN /\ uploaded_files'[s].original_path = original
                        /\ uploaded_files'[s].filename = uploaded_files[s].filename
                        /\ original \in DOMAIN fs'
                        /\ fs'[original] = fs[original]
                   ELSE Handled("cleanup") /\ resp'.sid = s /\ resp'.status = 200
                /\ (Handled("download") /\ resp'.sid = s /\ resp'.arg = "original") =>
                      /\ resp'.status = 200
                      /\ resp'.val.path = original
                      /\ resp'.val.content = fs[original]
      ]_vars

C19_Witness ==
    /\ resp.op = "download"
    /\ resp.arg = "original"
    /\ resp.status = 200
    /\ resp.val.content = GoodPdf
    /\ resp.sid \in updated
    /\ fs[uploaded_files[resp.sid].edited_path] = EditedPdf
    /\ "translated_path" \in DOMAIN uploaded_files[resp.sid]

(* The operations that take a session id *)
SessionOps == {"extract", "update", "translate", "download", "cleanup"}

(* C20: the ids in the store are those of successful uploads that were not  *)
(* cleaned up since; only a successful upload adds an id and only a         *)
(* successful cleanup of that id removes it; a session operation on an id   *)
(* that was never created or was cleaned up answers 404 and changes neither *)
(* the store nor the files, and no translate call starts for such an id.    *)
C20_SessionLifetime ==
    [][/\ DOMAIN uploaded_files' = issued' \ cleaned'
       /\ \A s \in DOMAIN uploaded_files' \ DOMAIN uploaded_files :
            Handled("upload") /\ resp'.sid = s /\ resp'.status = 200
       /\ \A s \in DOMAIN uploaded_files \ DOMAIN uploaded_files' :
            Handled("cleanup") /\ resp'.sid = s /\ resp'.status = 200
       /\ \A op \in SessionOps :
            (Handled(op) /\ (resp'.sid \notin issued \/ resp'.sid \in cleaned)) =>
                /\ resp'.status = 404
                /\ uploaded_files' = uploaded_files
                /\ fs' = fs
                /\ tr' = tr
       /\ (tr.pc = "idle" /\ tr'.pc # "idle") => tr'.sid \in issued \ cleaned
      ]_vars

C20_Witness ==
    /\ resp.op = "translate"
    /\ resp.status = 404
    /\ resp.sid \in cleaned
    /\ Path(resp.sid, "edited") \in DOMAIN fs
    /\ uploaded_files # <<>>

(* C21: the answer of the session listing agrees with the store: the count  *)
(* is the number of records, every stored id has exactly one entry, with    *)
(* the record's filename, there is no entry for any other id, and           *)
(* has_translation is true exactly when translated_path is set, that is     *)
(* exactly for the sessions translated successfully since their upload; a   *)
(* cleaned-up session has no entry.                                         *)
C21_ListingReflectsStore ==
    resp.op = "sessions" =>
        /\ resp.status = 200
        /\ resp.val.active_sessions = Cardinality(DOMAIN uploaded_files)
        /\ Cardinality(resp.val.sessions) = resp.val.active_sessions
        /\ \A s \in DOMAIN uploaded_files :
              \E e \in resp.val.sessions :
                  /\ e.session_id = s
                  /\ e.filename = uploaded_files[s].filename
                  /\ e.has_translation = ("translated_path" \in DOMAIN uploaded_files[s])
                  /\ e.has_translation = (s \in translated_ok)
        /\ \A e \in resp.val.sessions :
              e.session_id \in DOMAIN uploaded_files /\ e.session_id \notin cleaned

C21_Witness ==
    /\ resp.op = "sessions"
    /\ resp.val.active_sessions = 1
    /\ cleaned # {}
    /\ \E e \in resp.val.sessions : e.has_translation /\ e.session_id \in updated

(* The upload passed the name test and an exception was raised while the    *)
(* file was saved or while the validator read it                            *)
UploadRaised(r) ==
    /\ r.op = "upload"
    /\ HasPdfName(r.arg[1])
    /\ r.arg[3] \in {"open_fails", "copy_fails", "read_fails"}

(* C22 as stated: an exception while the upload is saved or validated is    *)
(* answered 500, the file is gone and no record is created.                 *)
C22_UploadExceptionIs500 ==
    [][(resp = NoResp /\ resp' # NoResp /\ UploadRaised(resp')) =>
          /\ resp'.status = 500
          /\ FilesOf(fs', uuid4) = {}
          /\ UNCHANGED <<uploaded_files, fs, issued>>
      ]_vars

(* C22, amended: an exception while the file is saved (open or copy) is     *)
(* answered 500; a failure to read the file during validation is caught by  *)
(* the validator and answered 400 as an invalid file; in each case no file  *)
(* of the upload is left and no record is created.                          *)
C22_UploadExceptionCleansUp ==
    [][(resp = NoResp /\ resp' # NoResp /\ UploadRaised(resp')) =>
          /\ resp'.status = IF resp'.arg[3] = "read_fails" THEN 400 ELSE 500
          /\ resp'.sid = UnknownId
          /\ FilesOf(fs', uuid4) = {}
          /\ UNCHANGED <<uploaded_files, fs, issued>>
      ]_vars

C22_Witness ==
    /\ UploadRaised(resp)
    /\ resp.arg[3] = "copy_fails"
    /\ resp.status = 500
    /\ uploaded_files # <<>>
    /\ \A s \in SessionIds \ issued : FilesOf(fs, s) = {}

(* C23: a successful upload creates its record under an id that is not in   *)
(* the store and never was (neither issued before nor cleaned up) and that  *)
(* no file carries; every record and every file that existed before the     *)
(* upload is unchanged after it.                                            *)
C23_IdsNeverReused ==
    [][(Handled("upload") /\ resp'.status = 200) =>
          LET session_id == resp'.sid
          IN  /\ session_id \notin DOMAIN uploaded_files
              /\ session_id \notin issued
              /\ session_id \notin cleaned
              /\ FilesOf(fs, session_id) = {}
              /\ session_id \in DOMAIN uploaded_files'
              /\ \A s \in DOMAIN uploaded_files : uploaded_files'[s] = uploaded_files[s]
              /\ \A p \in DOMAIN fs : p \in DOMAIN fs' /\ fs'[p] = fs[p]
      ]_vars

C23_Witness ==
    /\ resp.op = "upload"
    /\ resp.status = 200
    /\ resp.sid \notin cleaned
    /\ \E c \in cleaned : c \notin DOMAIN uploaded_files /\ FilesOf(fs, c) # {}

(* C24: while a translate call for a session is in flight (after its upload *)
(* to the provider, before its result is handled) a cleanup of that session *)
(* can be handled; the call then runs on, and ends with 500 and without the *)
(* record.                                                                  *)
C24_CleanupDuringTranslate ==
    /\ tr.pc \in {"poll", "download"} => ENABLED cleanup_session(tr.sid)
    /\ (resp.op = "translate" /\ resp.sid \in cleaned) =>
          (resp.status \in {404, 500} /\ resp.sid \notin DOMAIN uploaded_files)

(* C25: every file in temp storage carries the id of a stored session and   *)
(* is named by a path field of that session's record.                       *)
C25_EveryFileReferenced ==
    \A p \in DOMAIN fs :
        /\ p[1] \in DOMAIN uploaded_files
        /\ p \in Referenced(uploaded_files[p[1]])

(* C26: an update answered with 500 leaves the record as it was and leaves  *)
(* the content of the file that translate takes as its input as it was.     *)
C26_FailedUpdateChangesNothing ==
    [][(Handled("update") /\ resp'.status = 500) =>
          LET session_id == resp'.sid
              input == translate_input(uploaded_files[session_id])
          IN  /\ uploaded_files' = uploaded_files
              /\ translate_input(uploaded_files'[session_id]) = input
              /\ input \in DOMAIN fs'
              /\ fs'[input] = fs[input]
      ]_vars

(* The content is what the provider gives for some document *)
IsTranslation(content) ==
    Len(content) >= 1 /\ content = Translated(Tail(content))

(* C27: a successful download of "translated" serves the complete output of *)
(* a translation, and the file that translated_path names changes only when *)
(* a translate call of the session downloads its output in full.            *)
C27_TranslatedFileIntact ==
    [][/\ (Handled("download") /\ resp'.arg = "translated" /\ resp'.status = 200) =>
            /\ resp'.val.content = fs[uploaded_files[resp'.sid].translated_path]
            /\ IsTranslation(resp'.val.content)
       /\ \A s \in DOMAIN uploaded_files \cap DOMAIN uploaded_files' :
            "translated_path" \in DOMAIN uploaded_files[s] =>
                LET file == uploaded_files[s].translated_path
                IN  \/ fs'[file] = fs[file]
                    \/ /\ tr.pc = "download" /\ tr.sid = s
                       /\ tr'.result.success
                       /\ fs'[file] = Translated(fs[tr.input])
      ]_vars

====
